---- MODULE Spec2Model ----
(***************************************************************************)
(* Docs2Text, src/app.py: the per-file conversion-and-cleanup workflow of  *)
(* main() and the size metrics it renders.                                 *)
(*                                                                         *)
(* One run of main() over a batch of uploaded files is a sequential state  *)
(* machine.  pc is the position of the run inside the per-file block:      *)
(*   for -> create -> write -> close -> convert -> metrics -> render       *)
(*       -> finally -> for ...                                             *)
(* with the except handler of line 124 reached from convert and metrics,   *)
(* and finally reached from every failing step of the temporary storage.  *)
(*                                                                         *)
(* File names are tuples of one-character strings, texts are run-length    *)
(* encoded sequences of code points, and a float is the exact rational it  *)
(* approximates.                                                           *)
(***************************************************************************)
EXTENDS Integers, Sequences, FiniteSets

VARIABLES
    uploaded_files,     \* the batch returned by st.file_uploader, line 36
    idx,                \* position of the for loop of line 45 (0 before it)
    pc,                 \* position of the run inside main()
    disk,               \* the temporary files that exist: path -> contents
    next_id,            \* the next unused random part of a temporary name
    tmp_file,           \* local tmp_file: the path of the open temporary file
    tmp_path,           \* local tmp_path; NoPath while the name is unbound
    text_content,       \* local text_content
    original_size,      \* local original_size
    converted_size,     \* local converted_size
    reduction_percent,  \* local reduction_percent
    err,                \* str(e) of the exception caught at line 124
    exc,                \* the exception propagating out of the try of line 50
    ui,                 \* what was rendered, per uploaded file, in order
    conv,               \* history: the outcome of md.convert per file
    created,            \* history: every temporary file created, with its file
    releases            \* history: every run of the finally block of line 129

vars == <<uploaded_files, idx, pc, disk, next_id, tmp_file, tmp_path,
          text_content, original_size, converted_size, reduction_percent,
          err, exc, ui, conv, created, releases>>

\* ------------------------------------------------------------------ bounds
\* The longest batch of uploaded files of Spec.
MaxFiles == 2
\* SpecWide draws sizes within Spread of each band boundary.
Spread == 2

\* ------------------------------------------------------- program constants
KB == 1024

\* --------------------------------------------------------------- strings
Dot == "."

\* splitext cutting at the first dot of the name instead of the last.
splitext_first_dot(name) ==
    LET dots == {i \in 1..Len(name) : name[i] = Dot}
        First(S) == CHOOSE i \in S : \A j \in S : i <= j
    IN  IF dots = {} THEN name ELSE SubSeq(name, 1, First(dots) - 1)

\* os.path.splitext(name)[0], line 84, for a name without directory
\* separators: the name is cut at its last dot, unless only dots precede that
\* dot (leading dots belong to the root).
splitext_root(name) ==
    LET dots == {i \in 1..Len(name) : name[i] = Dot}
        Last(S) == CHOOSE i \in S : \A j \in S : j <= i
    IN  IF dots = {} THEN name
        ELSE IF \E k \in 1..(Last(dots) - 1) : name[k] # Dot
             THEN SubSeq(name, 1, Last(dots) - 1)
             ELSE name

\* The literal tails of the f-strings of lines 91 and 98.
ConvertedMd  == <<"_","c","o","n","v","e","r","t","e","d",".","m","d">>
ConvertedTxt == <<"_","c","o","n","v","e","r","t","e","d",".","t","x","t">>

\* ----------------------------------------------------------------- texts
\* A text is a sequence of runs [cp |-> code point, n |-> repetitions].
\* Bytes of one code point in UTF-8.
Utf8Width(cp) ==
    IF cp < 128 THEN 1
    ELSE IF cp < 2048 THEN 2
    ELSE IF cp < 65536 THEN 3
    ELSE 4

\* len(text.encode('utf-8')), line 65.
RECURSIVE utf8_len(_)
utf8_len(text) ==
    IF text = <<>> THEN 0
    ELSE Head(text).n * Utf8Width(Head(text).cp) + utf8_len(Tail(text))

\* ---------------------------------------------------------------- numbers
\* Python's true division of two ints: the exact quotient, or a
\* ZeroDivisionError, written as a quotient with den = 0.
TrueDiv(a, b) == [num |-> a, den |-> b]
IsZeroDivision(q) == q.den = 0
\* q * k for an int k.
Times(q, k) == [num |-> q.num * k, den |-> q.den]
IntAsRat(k) == [num |-> k, den |-> 1]
\* q > 0 for a quotient of non-negative denominator.
Positive(q) == q.num > 0 /\ q.den > 0

\* n/d (n >= 0, d > 0) rounded to the nearest integer, ties to even: the
\* rounding of Python's fixed-point float formatting.
RoundHalfEven(n, d) ==
    LET q == n \div d
        r == n % d
    IN  IF 2 * r > d \/ (2 * r = d /\ q % 2 = 1) THEN q + 1 ELSE q

\* f"{n/d:.2f}": the digits before and after the point.
Fixed2(n, d) ==
    LET h == RoundHalfEven(n * 100, d)
    IN  [whole |-> h \div 100, frac |-> h % 100, digits |-> 2]

\* f"{q:.1f}".
Fixed1(q) ==
    LET t == RoundHalfEven(q.num * 10, q.den)
    IN  [whole |-> t \div 10, frac |-> t % 10, digits |-> 1]

\* A formatted number with its unit.
WithUnit(f, unit) ==
    [whole |-> f.whole, frac |-> f.frac, digits |-> f.digits, unit |-> unit]

\* format_file_size with the comparisons of lines 16 and 18 off by one.
format_file_size_le(size_in_bytes) ==
    IF size_in_bytes <= KB
    THEN [whole |-> size_in_bytes, frac |-> 0, digits |-> 0, unit |-> "bytes"]
    ELSE IF size_in_bytes <= KB * KB
    THEN WithUnit(Fixed2(size_in_bytes, KB), "KB")
    ELSE WithUnit(Fixed2(size_in_bytes, KB * KB), "MB")

\* format_file_size, lines 14-21: the formatted number and its unit.
format_file_size(size_in_bytes) ==
    IF size_in_bytes < KB
    THEN [whole |-> size_in_bytes, frac |-> 0, digits |-> 0, unit |-> "bytes"]
    ELSE IF size_in_bytes < KB * KB
    THEN WithUnit(Fixed2(size_in_bytes, KB), "KB")
    ELSE WithUnit(Fixed2(size_in_bytes, KB * KB), "MB")

\* Lines 68-71 with the guard against a zero original size dropped.
reduction_noguard(orig, convd) ==
    Times(TrueDiv(orig - convd, orig), 100)

\* Lines 68-71: reduction_percent from the two sizes.
reduction(orig, convd) ==
    IF orig > 0
    THEN Times(TrueDiv(orig - convd, orig), 100)
    ELSE IntAsRat(0)

\* ------------------------------------------------------------ input domains
\* Uploaded file names: every name ends in an extension of the type filter of
\* line 39 and has a non-empty stem.
NameTxt == <<"a", ".", "t", "x", "t">>
NamePdf == <<"r", ".", "v", "2", ".", "p", "d", "f">>
Names == {NameTxt, NamePdf}

\* n repetitions of one code point.
Repeat(cp, n) == IF n = 0 THEN <<>> ELSE <<[cp |-> cp, n |-> n]>>

\* The uploaded bytes, by what the conversion engine makes of them: a
\* document holding a text, or bytes the engine cannot parse.
Document(text) == [doc |-> "ok", text |-> text, err |-> ""]
Corrupt == [doc |-> "corrupt", text |-> <<>>, err |-> "File is not a zip file"]
\* What a failed write or flush leaves in the temporary file.
Truncated == [doc |-> "truncated", text |-> <<>>, err |-> "unexpected end of data"]

UploadedFile(name, size, buf) == [name |-> name, size |-> size, buf |-> buf]

\* The files of Spec: an empty file, and 500-byte files whose text is as
\* long (500 ASCII characters), longer in bytes but shorter in characters
\* (300 two-byte characters), shorter (40 ASCII characters) or unreadable.
Files ==
    {UploadedFile(n, 0, b) : n \in Names, b \in {Document(<<>>), Corrupt}}
    \cup
    {UploadedFile(n, 500, b) :
        n \in Names,
        b \in {Document(Repeat(97, 500)), Document(Repeat(233, 300)),
               Document(Repeat(97, 40)), Corrupt}}

\* Every sequence over S of length at most n.
SeqsUpTo(S, n) == UNION {[1..k -> S] : k \in 0..n}

\* The sizes of SpecWide: around both band boundaries of format_file_size.
WideSizes ==
    {0, 1, 500}
    \cup (KB - Spread)..(KB + Spread)
    \cup (KB * KB - Spread)..(KB * KB + Spread)
    \cup {2 * KB * KB}

WideTexts ==
    {Repeat(97, n) : n \in WideSizes}
    \cup {Repeat(233, KB \div 2), Repeat(8364, 200), Repeat(128512, 256),
          Repeat(97, 10 * KB)}

WideFiles ==
    {UploadedFile(NameTxt, s, Document(t)) : s \in WideSizes, t \in WideTexts}
    \cup {UploadedFile(NameTxt, s, Corrupt) : s \in WideSizes}

\* ------------------------------------------------------------------- state
\* tmp_path before its first assignment ('tmp_path' in locals() is false).
NoPath == [id |-> 0, suffix |-> <<>>]
NoRatio == [num |-> 0, den |-> 1]

\* A disk without temporary files.
NoFiles == [q \in {} |-> [data |-> Truncated, closed |-> TRUE]]

\* The state main() starts in, for a given batch.
Start(batch) ==
    /\ uploaded_files = batch
    /\ idx = 0
    /\ pc = "for"
    /\ disk = NoFiles
    /\ next_id = 1
    /\ tmp_file = NoPath
    /\ tmp_path = NoPath
    /\ text_content = <<>>
    /\ original_size = 0
    /\ converted_size = 0
    /\ reduction_percent = NoRatio
    /\ err = ""
    /\ exc = "None"
    /\ ui = [i \in 1..Len(batch) |-> <<>>]
    /\ conv = [i \in 1..Len(batch) |-> "none"]
    /\ created = <<>>
    /\ releases = <<>>

Init == \E batch \in SeqsUpTo(Files, MaxFiles) : Start(batch)

InitWide == \E f \in WideFiles : Start(<<f>>)

uploaded_file == uploaded_files[idx]

\* --------------------------------------------------------- rendered elements
Expander(name) == [kind |-> "expander", label |-> name]
Success(name) == [kind |-> "success", name |-> name]
TextArea(value) == [kind |-> "text_area", value |-> value]
DownloadButton(file_name, data, mime) ==
    [kind |-> "download_button", file_name |-> file_name, data |-> data,
     mime |-> mime]
Table(original, converted) ==
    [kind |-> "table", original |-> original, converted |-> converted]
Metric(value) == [kind |-> "metric", value |-> value]
Info == [kind |-> "info", message |-> "The text version is larger than the original file."]
Error(name) == [kind |-> "error", name |-> name]
Caption(message) == [kind |-> "caption", message |-> message]

Show(elements) == ui' = [ui EXCEPT ![idx] = @ \o elements]

\* ---------------------------------------------------------------- the disk
Exists(path) == path \in DOMAIN disk

\* The disk with path holding content.
Put(path, content) ==
    [q \in DOMAIN disk \cup {path} |-> IF q = path THEN content ELSE disk[q]]

\* The disk without path.
Remove(path) == [q \in DOMAIN disk \ {path} |-> disk[q]]

\* tempfile's name for an upload: a part unique per call, then the suffix of
\* line 51.
TempName(name) == [id |-> next_id, suffix |-> <<"_">> \o name]

\* md.convert(path), line 59: the engine reads the bytes at path.
CanConvert(path) == Exists(path) /\ disk[path].data.doc = "ok"

\* ------------------------------------------------------------------ main()
\* Lines 42 and 45: the loop takes the next uploaded file and opens its
\* expander (line 47).
ForNext ==
    /\ pc = "for"
    /\ idx < Len(uploaded_files)
    /\ idx' = idx + 1
    /\ ui' = [ui EXCEPT ![idx + 1] = <<Expander(uploaded_files[idx + 1].name)>>]
    /\ pc' = "create"
    /\ UNCHANGED <<uploaded_files, disk, next_id, tmp_file, tmp_path,
                   text_content, original_size, converted_size,
                   reduction_percent, err, exc, conv, created, releases>>

\* Lines 42 and 45: no file is left (or none was uploaded); main() returns.
ForEnd ==
    /\ pc = "for"
    /\ idx = Len(uploaded_files)
    /\ pc' = "done"
    /\ UNCHANGED <<uploaded_files, idx, disk, next_id, tmp_file, tmp_path,
                   text_content, original_size, converted_size,
                   reduction_percent, err, exc, ui, conv, created, releases>>

\* Line 51: NamedTemporaryFile(delete=False, suffix=...) creates and opens an
\* empty file under a fresh name.
CreateTemp ==
    /\ pc = "create"
    /\ LET path == TempName(uploaded_file.name)
       IN  /\ disk' = Put(path, [data |-> Truncated, closed |-> FALSE])
           /\ tmp_file' = path
           /\ created' = Append(created, [path |-> path, file |-> idx])
    /\ next_id' = next_id + 1
    /\ pc' = "write"
    /\ UNCHANGED <<uploaded_files, idx, tmp_path, text_content, original_size,
                   converted_size, reduction_percent, err, exc, ui, conv,
                   releases>>

\* Line 51: NamedTemporaryFile raises OSError (no space, no permission); no
\* file exists and the exception leaves the try block.
CreateTempFails ==
    /\ pc = "create"
    /\ exc' = "OSError"
    /\ pc' = "finally"
    /\ UNCHANGED <<uploaded_files, idx, disk, next_id, tmp_file, tmp_path,
                   text_content, original_size, converted_size,
                   reduction_percent, err, ui, conv, created, releases>>

\* Lines 52-53: the upload's bytes are written and tmp_path is bound.
WriteTemp ==
    /\ pc = "write"
    /\ disk' = Put(tmp_file, [data |-> uploaded_file.buf, closed |-> FALSE])
    /\ tmp_path' = tmp_file
    /\ pc' = "close"
    /\ UNCHANGED <<uploaded_files, idx, next_id, tmp_file, text_content,
                   original_size, converted_size, reduction_percent, err, exc,
                   ui, conv, created, releases>>

\* Line 52: write raises OSError.  Leaving the with block of line 51 closes
\* the file, which delete=False keeps on disk; line 53 is not reached, so
\* tmp_path keeps the value it had.
WriteTempFails ==
    /\ pc = "write"
    /\ disk' = Put(tmp_file, [data |-> Truncated, closed |-> TRUE])
    /\ exc' = "OSError"
    /\ pc' = "finally"
    /\ UNCHANGED <<uploaded_files, idx, next_id, tmp_file, tmp_path,
                   text_content, original_size, converted_size,
                   reduction_percent, err, ui, conv, created, releases>>

\* End of the with block of line 51: the file is flushed and closed.
CloseTemp ==
    /\ pc = "close"
    /\ disk' = Put(tmp_file, [data |-> disk[tmp_file].data, closed |-> TRUE])
    /\ pc' = "convert"
    /\ UNCHANGED <<uploaded_files, idx, next_id, tmp_file, tmp_path,
                   text_content, original_size, converted_size,
                   reduction_percent, err, exc, ui, conv, created, releases>>

\* End of the with block of line 51: the flush of close raises OSError.
\* tmp_path is bound by then (line 53).
CloseTempFails ==
    /\ pc = "close"
    /\ disk' = Put(tmp_file, [data |-> Truncated, closed |-> TRUE])
    /\ exc' = "OSError"
    /\ pc' = "finally"
    /\ UNCHANGED <<uploaded_files, idx, next_id, tmp_file, tmp_path,
                   text_content, original_size, converted_size,
                   reduction_percent, err, ui, conv, created, releases>>

\* Lines 59-60: the engine converts the temporary file.
Convert ==
    /\ pc = "convert"
    /\ CanConvert(tmp_path)
    /\ text_content' = disk[tmp_path].data.text
    /\ conv' = [conv EXCEPT ![idx] = "ok"]
    /\ pc' = "metrics"
    /\ UNCHANGED <<uploaded_files, idx, disk, next_id, tmp_file, tmp_path,
                   original_size, converted_size, reduction_percent, err, exc,
                   ui, created, releases>>

\* Line 59 raises and the exception escapes the handler of line 124.
ConvertRaises_uncaught ==
    /\ pc = "convert"
    /\ ~CanConvert(tmp_path)
    /\ conv' = [conv EXCEPT ![idx] = "raised"]
    /\ exc' = "Exception"
    /\ pc' = "finally"
    /\ UNCHANGED <<uploaded_files, idx, disk, next_id, tmp_file, tmp_path,
                   text_content, original_size, converted_size,
                   reduction_percent, err, ui, created, releases>>

\* Line 59 raises: control passes to the handler of line 124 with the
\* engine's message.
ConvertRaises ==
    /\ pc = "convert"
    /\ ~CanConvert(tmp_path)
    /\ err' = (IF Exists(tmp_path) THEN disk[tmp_path].data.err ELSE "No such file")
    /\ conv' = [conv EXCEPT ![idx] = "raised"]
    /\ pc' = "except"
    /\ UNCHANGED <<uploaded_files, idx, disk, next_id, tmp_file, tmp_path,
                   text_content, original_size, converted_size,
                   reduction_percent, exc, ui, created, releases>>

\* Lines 63-71: the sizes and the reduction.  A ZeroDivisionError of line 69
\* would be caught at line 124 like any other exception.
Metrics ==
    /\ pc = "metrics"
    /\ original_size' = uploaded_file.size
    /\ converted_size' = utf8_len(text_content)
    /\ LET r == reduction(uploaded_file.size, utf8_len(text_content))
       IN  IF IsZeroDivision(r)
           THEN /\ err' = "division by zero"
                /\ pc' = "except"
                /\ UNCHANGED reduction_percent
           ELSE /\ reduction_percent' = r
                /\ pc' = "render"
                /\ UNCHANGED err
    /\ UNCHANGED <<uploaded_files, idx, disk, next_id, tmp_file, tmp_path,
                   text_content, exc, ui, conv, created, releases>>

\* Lines 114-122: the efficiency badge.
Efficiency(r) ==
    IF Positive(r)
    THEN Metric(WithUnit(Fixed1(r), "% Smaller"))
    ELSE Info

\* Lines 74-122: the success message, the preview, the two download buttons,
\* the size table and the efficiency badge.
Render ==
    /\ pc = "render"
    /\ LET base_name == splitext_root(uploaded_file.name)
       IN  Show(<<Success(uploaded_file.name),
                  TextArea(text_content),
                  DownloadButton(base_name \o ConvertedMd, text_content,
                                 "text/markdown"),
                  DownloadButton(base_name \o ConvertedTxt, text_content,
                                 "text/plain"),
                  Table(format_file_size(original_size),
                        format_file_size(converted_size)),
                  Efficiency(reduction_percent)>>)
    /\ pc' = "finally"
    /\ UNCHANGED <<uploaded_files, idx, disk, next_id, tmp_file, tmp_path,
                   text_content, original_size, converted_size,
                   reduction_percent, err, exc, conv, created, releases>>

\* The handler of line 124 swallowing the exception without a word.
Except_silent ==
    /\ pc = "except"
    /\ pc' = "finally"
    /\ UNCHANGED <<uploaded_files, idx, disk, next_id, tmp_file, tmp_path,
                   text_content, original_size, converted_size,
                   reduction_percent, err, exc, ui, conv, created, releases>>

\* Lines 124-127: the handler shows the banner and the technical caption.
Except ==
    /\ pc = "except"
    /\ Show(<<Error(uploaded_file.name), Caption(err)>>)
    /\ pc' = "finally"
    /\ UNCHANGED <<uploaded_files, idx, disk, next_id, tmp_file, tmp_path,
                   text_content, original_size, converted_size,
                   reduction_percent, err, exc, conv, created, releases>>

\* Line 131 without os.path.exists: unlink whenever tmp_path is bound.
release_guard_bound_only(path) == path # NoPath

\* The finally block with the cleanup left out.
release_guard_never(path) == FALSE

\* Line 131: 'tmp_path' in locals() and os.path.exists(tmp_path).
release_guard(path) == path # NoPath /\ Exists(path)

\* Lines 129-132: the cleanup, then the loop goes on, or the exception that
\* was propagating leaves main().  Reading an unbound tmp_path raises
\* NameError and os.unlink of a missing path raises FileNotFoundError.
Finally ==
    /\ pc = "finally"
    /\ LET attempt == release_guard(tmp_path)
           raised ==
               IF ~attempt THEN "None"
               ELSE IF tmp_path = NoPath THEN "NameError"
               ELSE IF ~Exists(tmp_path) THEN "FileNotFoundError"
               ELSE "None"
           unlinked == attempt /\ raised = "None"
       IN  /\ disk' = (IF unlinked THEN Remove(tmp_path) ELSE disk)
           /\ exc' = (IF raised # "None" THEN raised ELSE exc)
           /\ pc' = (IF raised # "None" \/ exc # "None" THEN "aborted" ELSE "for")
           /\ releases' = Append(releases,
                  [file |-> idx, path |-> tmp_path, existed |-> Exists(tmp_path),
                   unlinked |-> unlinked, raised |-> raised])
    /\ UNCHANGED <<uploaded_files, idx, next_id, tmp_file, tmp_path,
                   text_content, original_size, converted_size,
                   reduction_percent, err, ui, conv, created>>

Next ==
    \/ ForNext
    \/ ForEnd
    \/ CreateTemp
    \/ CreateTempFails
    \/ WriteTemp
    \/ WriteTempFails
    \/ CloseTemp
    \/ CloseTempFails
    \/ Convert
    \/ ConvertRaises
    \/ Metrics
    \/ Render
    \/ Except
    \/ Finally

\* One run of main() over a batch of at most MaxFiles files.
Spec == Init /\ [][Next]_vars

\* One run of main() over a single file, its size and text drawn around the
\* band boundaries.
SpecWide == InitWide /\ [][Next]_vars

\* ================================================================== claims
Batch == 1..Len(uploaded_files)

\* The per-file block of file j has been left.
Ended(j) == idx > j \/ (idx = j /\ pc \in {"for", "done", "aborted"})

MainEnded == pc \in {"done", "aborted"}

\* The elements of one kind rendered for file j.
Rendered(j, kind) == SelectSeq(ui[j], LAMBDA e : e.kind = kind)

\* The temporary files created while file j was processed.
TempsOf(j) == {created[k].path : k \in {k \in 1..Len(created) : created[k].file = j}}

\* How often path has been unlinked.
Unlinks(path) ==
    Cardinality({r \in 1..Len(releases) :
                    releases[r].unlinked /\ releases[r].path = path})

\* The finally block run r found tmp_path bound by the file it ran for.
BoundHere(r) == r.path \in TempsOf(r.file)

\* C1: every temporary file created for an uploaded file is deleted exactly
\* once by the time that file's block is left, on every exit path (a failing
\* write included), so none is left once main() has ended.
C1_TempDeletedExactlyOnce ==
    \A j \in Batch :
        Ended(j) =>
            \A path \in TempsOf(j) : ~Exists(path) /\ Unlinks(path) = 1

\* C2: when the engine raises for a file, that file's block shows the error
\* banner naming the file and the caption with the engine's message, shows no
\* preview and no download button, removes the temporary file, and the loop
\* goes on with the next file.
C2_ConversionFailureContained ==
    \A j \in Batch :
        (conv[j] = "raised" /\ Ended(j)) =>
            /\ ui[j] = <<Expander(uploaded_files[j].name),
                         Error(uploaded_files[j].name),
                         Caption(uploaded_files[j].buf.err)>>
            /\ Rendered(j, "text_area") = <<>>
            /\ Rendered(j, "download_button") = <<>>
            /\ \A path \in TempsOf(j) : ~Exists(path) /\ Unlinks(path) = 1
            /\ ~(pc = "aborted" /\ idx = j)
            /\ (MainEnded /\ j < Len(uploaded_files)) => ui[j + 1] # <<>>

\* A failed conversion of the first file is behind and the second file is
\* being processed.
C2_Witness ==
    /\ Len(uploaded_files) = 2
    /\ conv[1] = "raised"
    /\ idx = 2
    /\ pc = "convert"
    /\ disk # NoFiles

\* C3: a failure to create or write the temporary file of one uploaded file
\* aborts that file only; every later file of the batch is still stored,
\* converted and rendered.
C3_StorageFailureAbortsOneFileOnly ==
    (pc = "aborted" /\ exc = "OSError") =>
        \A j \in Batch :
            j > idx => (TempsOf(j) # {} /\ conv[j] # "none" /\ Len(ui[j]) > 1)

\* What a run of main() over the single file f renders when f converts.
RunAlone(f) ==
    LET text == f.buf.text
        base_name == splitext_root(f.name)
    IN  <<Expander(f.name),
          Success(f.name),
          TextArea(text),
          DownloadButton(base_name \o ConvertedMd, text, "text/markdown"),
          DownloadButton(base_name \o ConvertedTxt, text, "text/plain"),
          Table(format_file_size(f.size), format_file_size(utf8_len(text))),
          Efficiency(reduction(f.size, utf8_len(text)))>>

\* C4: in a batch where file a fails conversion and file b converts, in
\* either order, what is rendered for b (preview, both downloads, size table,
\* efficiency badge) is what a run over b alone renders, and the failure of a
\* does not keep b from being converted.
C4_Isolation ==
    /\ (Len(uploaded_files) = 1 /\ conv[1] = "ok" /\ Ended(1)) =>
            ui[1] = RunAlone(uploaded_files[1])
    /\ \A a, b \in Batch :
        (a # b /\ conv[a] = "raised" /\ uploaded_files[b].buf.doc = "ok") =>
            /\ (conv[b] = "ok" /\ Ended(b)) =>
                    ui[b] = RunAlone(uploaded_files[b])
            /\ (MainEnded /\ exc # "OSError") =>
                    (conv[b] = "ok" /\ ui[b] = RunAlone(uploaded_files[b]))

\* main() returned after a failed conversion followed by a successful one.
C4_Witness ==
    /\ pc = "done"
    /\ Len(uploaded_files) = 2
    /\ conv[1] = "raised"
    /\ conv[2] = "ok"
    /\ uploaded_files[2].size = 500

\* C5: the cleanup never raises; when the temporary file is already gone, or
\* tmp_path was not bound for the current file (unbound, or still holding the
\* path of an earlier file), it unlinks nothing; and it never deletes the
\* temporary file of another uploaded file.
C5_ReleaseIdempotent ==
    \A k \in 1..Len(releases) :
        LET r == releases[k]
        IN  /\ r.raised = "None"
            /\ (r.path = NoPath \/ ~r.existed \/ ~BoundHere(r)) => ~r.unlinked
            /\ r.unlinked => BoundHere(r)

\* The cleanup ran for the second file, whose write failed, with tmp_path
\* still holding the path of the first file, which was deleted before.
C5_Witness ==
    /\ Len(releases) = 2
    /\ releases[1].unlinked
    /\ releases[2].path = releases[1].path
    /\ ~releases[2].existed
    /\ ~BoundHere(releases[2])
    /\ exc = "OSError"

\* C6: reduction_percent is 0 for an original size of 0 and ((s - c) / s) *
\* 100 otherwise, c the UTF-8 byte length of the text: positive exactly when
\* c < s, zero when c = s, negative when c > s; the computation never divides
\* by zero and always yields a value.
C6_ReductionPercent ==
    /\ pc = "except" => conv[idx] = "raised"
    /\ pc = "render" =>
        LET s == uploaded_file.size
            c == utf8_len(uploaded_file.buf.text)
            r == reduction_percent
        IN  /\ original_size = s
            /\ converted_size = c
            /\ r.den > 0
            /\ s = 0 => r.num = 0
            /\ s > 0 => (r.num = (s - c) * 100 /\ r.den = s)
            /\ s > 0 => /\ (r.num > 0 <=> c < s)
                        /\ (r.num = 0 <=> c = s)
                        /\ (r.num < 0 <=> c > s)

\* The reduction of an empty original that converted to a non-empty text.
C6_Witness ==
    /\ pc = "render"
    /\ original_size = 0
    /\ converted_size > 0
    /\ reduction_percent.num = 0

BandIndex(unit) == IF unit = "bytes" THEN 0 ELSE IF unit = "KB" THEN 1 ELSE 2

\* The unit band of a size, as the claim states it.
BandOf(size) ==
    IF size < 1024 THEN "bytes" ELSE IF size < 1048576 THEN "KB" ELSE "MB"

\* C7: format_file_size picks the unit from the size alone: bytes below 1024,
\* KB from 1024 below 1048576, MB from 1048576; 1024 gives "1.00 KB" and
\* 1048576 "1.00 MB"; the band never decreases as the size grows.
C7_SizeBands ==
    \A j \in Batch :
        \A k \in 1..Len(Rendered(j, "table")) :
            LET t == Rendered(j, "table")[k]
                s == uploaded_files[j].size
                c == utf8_len(uploaded_files[j].buf.text)
                One(unit) == [whole |-> 1, frac |-> 0, digits |-> 2, unit |-> unit]
            IN  /\ t.original.unit = BandOf(s)
                /\ t.converted.unit = BandOf(c)
                /\ s < 1024 => (t.original.whole = s /\ t.original.digits = 0)
                /\ s = 1024 => t.original = One("KB")
                /\ c = 1024 => t.converted = One("KB")
                /\ s = 1048576 => t.original = One("MB")
                /\ c = 1048576 => t.converted = One("MB")
                /\ s <= c => BandIndex(t.original.unit) <= BandIndex(t.converted.unit)
                /\ c <= s => BandIndex(t.converted.unit) <= BandIndex(t.original.unit)

\* The table of a file of exactly 1024 bytes whose text has exactly 1048576.
C7_Witness ==
    /\ Len(uploaded_files) = 1
    /\ uploaded_files[1].size = 1024
    /\ utf8_len(uploaded_files[1].buf.text) = 1048576
    /\ Rendered(1, "table") # <<>>

\* C8: for a converted file exactly one efficiency output is rendered: the
\* message saying the text version is larger when the text's UTF-8 size is
\* larger than the original size, and the reduction metric otherwise.
C8_InfoOnlyWhenLarger ==
    \A j \in Batch :
        Rendered(j, "table") # <<>> =>
            LET s == uploaded_files[j].size
                c == utf8_len(uploaded_files[j].buf.text)
            IN  /\ Len(Rendered(j, "info")) + Len(Rendered(j, "metric")) = 1
                /\ Len(Rendered(j, "info")) = 1 <=> c > s

\* The name with its last extension stripped: what precedes its last dot.
IsStripped(base, name) ==
    \E k \in 1..Len(name) :
        /\ name[k] = Dot
        /\ \A m \in (k + 1)..Len(name) : name[m] # Dot
        /\ base = SubSeq(name, 1, k - 1)

\* C9: a converted file gets exactly two download artifacts, named
\* {basename}_converted.md and {basename}_converted.txt, basename the uploaded
\* name without its last extension, both holding the full converted text that
\* the preview shows; a file whose conversion failed gets none.
C9_Downloads ==
    \A j \in Batch :
        LET d == Rendered(j, "download_button")
            name == uploaded_files[j].name
        IN  /\ (conv[j] = "ok" /\ Ended(j)) =>
                /\ Len(d) = 2
                /\ \E base \in {SubSeq(name, 1, n) : n \in 0..Len(name)} :
                    /\ IsStripped(base, name)
                    /\ d[1].file_name = base \o ConvertedMd
                    /\ d[2].file_name = base \o ConvertedTxt
                /\ d[1].data = uploaded_files[j].buf.text
                /\ d[2].data = d[1].data
                /\ Rendered(j, "text_area") = <<TextArea(d[1].data)>>
            /\ conv[j] # "ok" => d = <<>>

\* A converted file whose name holds two dots has left its block.
C9_Witness ==
    /\ idx = 1
    /\ pc = "for"
    /\ conv[1] = "ok"
    /\ uploaded_files[1].name = NamePdf
    /\ uploaded_files[1].size = 500

\* C10: the files are processed one at a time in upload order; the temporary
\* file is fully written and closed before the engine is called on it, stays
\* on disk until the result is rendered, and is deleted before the next
\* file's temporary file is created, so at most one exists at any moment.
C10_Sequential ==
    /\ Cardinality(DOMAIN disk) <= 1
    /\ \A j \in Batch : (ui[j] # <<>> \/ conv[j] # "none") <=> j <= idx
    /\ \A k \in 1..Len(created) :
            /\ created[k].file <= idx
            /\ k > 1 => created[k - 1].file < created[k].file
    /\ pc = "create" => DOMAIN disk = {}
    /\ pc = "convert" =>
            /\ tmp_path \in TempsOf(idx)
            /\ Exists(tmp_path)
            /\ disk[tmp_path].closed
            /\ disk[tmp_path].data = uploaded_file.buf
    /\ pc \in {"metrics", "render", "except"} =>
            (tmp_path \in TempsOf(idx) /\ Exists(tmp_path))
    /\ (pc = "finally" /\ exc = "None") =>
            (tmp_path \in TempsOf(idx) /\ Exists(tmp_path))

\* The second file's temporary file is about to be created after the first
\* file's was deleted.
C10_Witness ==
    /\ pc = "create"
    /\ idx = 2
    /\ Len(releases) = 1
    /\ releases[1].unlinked
====
